---- MODULE Spec2Model ----
(***************************************************************************)
(* EduChain backend: the document store (student, kycdocument,             *)
(* proofsubmission, donation collections) and the request handlers of the  *)
(* two applications of the repository:                                     *)
(*   variant "main"    : src/main.py          (full implementation)        *)
(*   variant "backend" : src/backend/main.py  (earlier, partly stubbed)    *)
(* Every store access of a handler (find_one, count_documents, insert_one, *)
(* update_one) is one atomic step; a request in flight is a record of      *)
(* procs holding the handler's position (pc), arguments and locals.  The   *)
(* arrival of a request is merged with the handler's first store access.   *)
(***************************************************************************)
EXTENDS Integers, Sequences, FiniteSets, Bags, TLC

VARIABLES
    variant,          \* which application is deployed: "main" | "backend"
    student,          \* collection student: sequence, _id = index
    kycdocument,      \* collection kycdocument: sequence, _id = index
    proofsubmission,  \* collection proofsubmission: bag of student_id values
    donation,         \* collection donation: sequence, _id = index
    procs             \* requests in flight, one record per worker

vars == <<variant, student, kycdocument, proofsubmission, donation, procs>>
store == <<student, kycdocument, proofsubmission, donation>>

----------------------------------------------------------------------------
(* Bounds of the model *)

NumProcs == 2        \* workers handling requests concurrently
SeqStudents == 1     \* students created in the one-request-at-a-time score model
SeqProofs == 8       \* proof documents in the one-request-at-a-time score model
SeqKyc == 2          \* KYC documents in the one-request-at-a-time score model
RaceStudents == 1    \* students in the interleaved model
RaceProofs == 1      \* proof documents in the interleaved model
RaceKyc == 2         \* KYC documents in the interleaved model
MaxDonations == 2    \* donation documents in the donation lifecycle model
InitDonations == 2   \* donation documents in the initiate validation model
RetryDonations == 2  \* donation documents in the webhook redelivery model
LookupStudents == 1  \* students in the unknown-id model
LookupProofs == 2    \* proof documents in the unknown-id model
LookupKyc == 2       \* KYC documents in the unknown-id model
CreateStudents == 2  \* students in the student creation model
HookDonations == 1   \* donation documents in the concurrent webhook model

Procs == 1..NumProcs

----------------------------------------------------------------------------
(* Values *)

BadId == -1          \* an id string that ObjectId() rejects
GhostId == 0         \* a well-formed id that resolves to no document
NoScore == -1        \* trust score None
NoDoc == "none"      \* find_one found nothing / field absent
NoRef == <<>>        \* payment_reference None

KycStatuses == {"pending", "verified", "rejected"}
StudentKycStatuses == {"not_submitted"} \cup KycStatuses
ScoreInputs == {-5, 0, 55, 150}   \* trust_score values a client may send on creation

Scholarships == {"micro", "big"}
Currencies == {"INR", "inr", "USD"}
BoundaryAmounts == {9, 10, 5000, 5001, 9999, 10000, 1000000, 1000001}
Gateways == {"upi", "stripe"}
DonationStatuses == {"created", "processing", "succeeded", "failed", "refunded"}
TxHashes == {"0xa", "0xb"}

Min(a, b) == IF a <= b THEN a ELSE b
Max(a, b) == IF a >= b THEN a ELSE b

Idle == [op |-> "idle", pc |-> "idle"]
AllIdle == \A q \in Procs : procs[q].pc = "idle"

----------------------------------------------------------------------------
(* Document store *)

\* create_document of the database module src/main.py imports (not among the
\* sources): persists the record as given, the new document gets the next _id
create_document(coll, data) == Append(coll, data)

\* create_document of src/backend/database.py: insert_one of the data given
create_document_backend(coll, data) == Append(coll, data)
InsertedId(coll) == Len(coll) + 1

\* oid(): ObjectId(s) raises for a malformed id
oid_ok(s) == s # BadId

\* update_one({"_id": id}, {"$set": patch}) on a sequence collection:
\* merges the patch into the matched document, no-op when nothing matches
update_one(coll, id, patch) ==
    IF id \in 1..Len(coll)
    THEN [coll EXCEPT ![id] =
            [f \in DOMAIN @ |-> IF f \in DOMAIN patch THEN patch[f] ELSE @[f]]]
    ELSE coll

\* db["kycdocument"].find_one({"student_id": sid}): first match in store order, 0 if none
find_kyc(sid) ==
    LET hits == {i \in 1..Len(kycdocument) : kycdocument[i].student_id = sid}
    IN IF hits = {} THEN 0 ELSE CHOOSE i \in hits : \A j \in hits : i <= j

\* db["proofsubmission"].count_documents({"student_id": sid})
count_proofs(sid) == CopiesIn(sid, proofsubmission)

\* db["kycdocument"].count_documents({"student_id": sid, "status": "verified"})
count_verified_kyc(sid) ==
    Cardinality({i \in 1..Len(kycdocument) :
                    kycdocument[i].student_id = sid /\ kycdocument[i].status = "verified"})

student_exists(sid) == sid \in 1..Len(student)

----------------------------------------------------------------------------
(* Trust score, src/main.py *)

\* compute_trust_score with the cap on the proof bonus left out
TrustScoreNoCap(kyc, proofs_count) ==
    LET s1 == IF kyc # NoDoc
              THEN 40 + (IF kyc = "verified" THEN 30
                         ELSE IF kyc = "pending" THEN 10 ELSE 0)
              ELSE 10
    IN Max(0, Min(100, s1 + proofs_count * 5))

\* compute_trust_score with neither the cap on the proof bonus nor the final clamp
TrustScoreUnclamped(kyc, proofs_count) ==
    (IF kyc # NoDoc
     THEN 40 + (IF kyc = "verified" THEN 30 ELSE IF kyc = "pending" THEN 10 ELSE 0)
     ELSE 10) + proofs_count * 5

\* the arithmetic of compute_trust_score: kyc is the status of the KYC document
\* found, or NoDoc
TrustScore(kyc, proofs_count) ==
    LET s0 == 10
        s1 == IF kyc # NoDoc
              THEN s0 + 30 + (IF kyc = "verified" THEN 30
                              ELSE IF kyc = "pending" THEN 10 ELSE 0)
              ELSE s0
        s2 == s1 + Min(30, proofs_count * 5)
    IN Max(0, Min(100, s2))

\* an HTTPException that no handler catches: every request is answered with the
\* status code
RaiseUncaught(r, code) == [op |-> r.op, pc |-> "failed", sid |-> r.sid, code |-> code]

\* an HTTPException leaves the handler: submit_proof catches it and answers with
\* trust_score None, the other handlers answer with the status code
Raise(r, code) ==
    IF r.op = "submit_proof"
    THEN [op |-> r.op, pc |-> "done", sid |-> r.sid, id |-> r.id, ts |-> NoScore]
    ELSE [op |-> r.op, pc |-> "failed", sid |-> r.sid, code |-> code]

\* compute_trust_score, lines 32-35: oid() and the student lookup
ct_student_step(r) ==
    IF ~oid_ok(r.sid) THEN Raise(r, 400)
    ELSE IF ~student_exists(r.sid) THEN Raise(r, 404)
    ELSE [r EXCEPT !.pc = "ct_kyc"]

ct_student(p) ==
    /\ procs[p].pc = "ct_student"
    /\ procs' = [procs EXCEPT ![p] = ct_student_step(@)]
    /\ UNCHANGED <<variant, store>>

\* line 37: kyc = find_one(...)
ct_kyc(p) ==
    /\ procs[p].pc = "ct_kyc"
    /\ LET k == find_kyc(procs[p].sid)
       IN procs' = [procs EXCEPT ![p] =
            [op |-> @.op, pc |-> "ct_proofs", sid |-> @.sid, id |-> @.id,
             kyc |-> IF k = 0 THEN NoDoc ELSE kycdocument[k].status]]
    /\ UNCHANGED <<variant, store>>

\* lines 38-48: count the proofs, compute the score
ct_proofs(p) ==
    /\ procs[p].pc = "ct_proofs"
    /\ procs' = [procs EXCEPT ![p] =
            [op |-> @.op, pc |-> "ts_write", sid |-> @.sid, id |-> @.id,
             kyc |-> @.kyc, n |-> count_proofs(@.sid),
             ts |-> TrustScore(@.kyc, count_proofs(@.sid))]]
    /\ UNCHANGED <<variant, store>>

\* a recompute that answers with the score and does not write it back
ts_write_skip(p) ==
    /\ procs[p].pc = "ts_write"
    /\ procs' = [procs EXCEPT ![p] = [@ EXCEPT !.pc = "done"]]
    /\ UNCHANGED <<variant, store>>

\* the call sites' write-back: update_one(student, {"$set": {"trust_score": ts}})
ts_write(p) ==
    /\ procs[p].pc = "ts_write"
    /\ student' = update_one(student, procs[p].sid, [trust_score |-> procs[p].ts])
    /\ procs' = [procs EXCEPT ![p] = [@ EXCEPT !.pc = "done"]]
    /\ UNCHANGED <<variant, kycdocument, proofsubmission, donation>>

----------------------------------------------------------------------------
(* Students, KYC, proofs, trust query: src/main.py *)

\* Student.trust_score of src/schemas.py: Field(0.0, ge=0, le=100)
trust_score_valid(ts) == 0 <= ts /\ ts <= 100

\* create_student, lines 73-75: a body the Student schema rejects is answered 422
\* before the handler runs; otherwise the request body is stored as sent
create_student_insert(p, ts_in, ks_in) ==
    /\ variant = "main"
    /\ procs[p].pc = "idle"
    /\ IF trust_score_valid(ts_in)
       THEN /\ student' = create_document(student, [trust_score |-> ts_in, kyc_status |-> ks_in])
            /\ procs' = [procs EXCEPT ![p] =
                    [op |-> "create_student", pc |-> "init_ts", id |-> InsertedId(student)]]
       ELSE /\ procs' = [procs EXCEPT ![p] =
                    [op |-> "create_student", pc |-> "failed", code |-> 422]]
            /\ UNCHANGED student
    /\ UNCHANGED <<variant, kycdocument, proofsubmission, donation>>

\* create_student, line 77: initialize trust score
create_student_init(p) ==
    /\ procs[p].pc = "init_ts"
    /\ student' = update_one(student, procs[p].id, [trust_score |-> 0])
    /\ procs' = [procs EXCEPT ![p] = [@ EXCEPT !.pc = "done"]]
    /\ UNCHANGED <<variant, kycdocument, proofsubmission, donation>>

\* submit_kyc, line 93: existing = find_one(...)
submit_kyc_find(p, sid, st) ==
    /\ variant = "main"
    /\ procs[p].pc = "idle"
    /\ procs' = [procs EXCEPT ![p] =
            [op |-> "submit_kyc", pc |-> "kyc_write", sid |-> sid, st |-> st,
             existing |-> find_kyc(sid)]]
    /\ UNCHANGED <<variant, store>>

\* submit_kyc, lines 94-98: update the document found, or insert a new one
submit_kyc_write(p) ==
    /\ procs[p].pc = "kyc_write"
    /\ LET r == procs[p]
           doc == [student_id |-> r.sid, status |-> r.st]
       IN IF r.existing # 0
          THEN /\ kycdocument' = update_one(kycdocument, r.existing, doc)
               /\ procs' = [procs EXCEPT ![p] =
                    [op |-> r.op, pc |-> "kyc_status", sid |-> r.sid, st |-> r.st,
                     id |-> r.existing]]
          ELSE /\ kycdocument' = create_document(kycdocument, doc)
               /\ procs' = [procs EXCEPT ![p] =
                    [op |-> r.op, pc |-> "kyc_status", sid |-> r.sid, st |-> r.st,
                     id |-> InsertedId(kycdocument)]]
    /\ UNCHANGED <<variant, student, proofsubmission, donation>>

\* submit_kyc, line 101: oid() may raise 400; update the student's kyc_status
submit_kyc_status(p) ==
    /\ procs[p].pc = "kyc_status"
    /\ LET r == procs[p]
       IN IF ~oid_ok(r.sid)
          THEN /\ procs' = [procs EXCEPT ![p] = Raise(r, 400)]
               /\ UNCHANGED student
          ELSE /\ student' = update_one(student, r.sid, [kyc_status |-> r.st])
               /\ procs' = [procs EXCEPT ![p] =
                    [op |-> r.op, pc |-> "ct_student", sid |-> r.sid, id |-> r.id]]
    /\ UNCHANGED <<variant, kycdocument, proofsubmission, donation>>

\* submit_proof, line 111: the proof document is inserted first
submit_proof_insert(p, sid) ==
    /\ variant = "main"
    /\ procs[p].pc = "idle"
    /\ proofsubmission' = proofsubmission (+) SetToBag({sid})
    /\ procs' = [procs EXCEPT ![p] =
            [op |-> "submit_proof", pc |-> "ct_student", sid |-> sid,
             id |-> BagCardinality(proofsubmission) + 1]]
    /\ UNCHANGED <<variant, student, kycdocument, donation>>

\* get_trust, line 208: the request starts with compute_trust_score's student lookup
get_trust(p, sid) ==
    /\ variant = "main"
    /\ procs[p].pc = "idle"
    /\ procs' = [procs EXCEPT ![p] =
            ct_student_step([op |-> "get_trust", pc |-> "ct_student", sid |-> sid, id |-> 0])]
    /\ UNCHANGED <<variant, store>>

----------------------------------------------------------------------------
(* Students, KYC, proofs, trust query: src/backend/main.py *)

\* Student.trust_score of src/backend/schemas.py: Optional, Field(default=0.0, ge=0, le=100)
trust_score_valid_backend(ts) == ts = NoScore \/ (0 <= ts /\ ts <= 100)

\* create_student: a body the Student schema rejects is answered 422; otherwise one
\* insert, the client's trust_score (possibly None) is kept
create_student_backend(p, ts_in) ==
    /\ variant = "backend"
    /\ procs[p].pc = "idle"
    /\ IF trust_score_valid_backend(ts_in)
       THEN /\ student' = create_document_backend(student,
                    [trust_score |-> ts_in, kyc_status |-> NoDoc])
            /\ procs' = [procs EXCEPT ![p] =
                    [op |-> "create_student", pc |-> "done", id |-> InsertedId(student)]]
       ELSE /\ procs' = [procs EXCEPT ![p] =
                    [op |-> "create_student", pc |-> "failed", code |-> 422]]
            /\ UNCHANGED student
    /\ UNCHANGED <<variant, kycdocument, proofsubmission, donation>>

\* submit_kyc: always inserts a new document
submit_kyc_backend(p, sid, st) ==
    /\ variant = "backend"
    /\ procs[p].pc = "idle"
    /\ kycdocument' = create_document_backend(kycdocument, [student_id |-> sid, status |-> st])
    /\ procs' = [procs EXCEPT ![p] =
            [op |-> "submit_kyc", pc |-> "done", sid |-> sid, st |-> st,
             id |-> InsertedId(kycdocument)]]
    /\ UNCHANGED <<variant, student, proofsubmission, donation>>

\* submit_proof: one insert, no recompute
submit_proof_backend(p, sid) ==
    /\ variant = "backend"
    /\ procs[p].pc = "idle"
    /\ proofsubmission' = proofsubmission (+) SetToBag({sid})
    /\ procs' = [procs EXCEPT ![p] =
            [op |-> "submit_proof", pc |-> "done", sid |-> sid,
             id |-> BagCardinality(proofsubmission) + 1, ts |-> NoScore]]
    /\ UNCHANGED <<variant, student, kycdocument, donation>>

\* the arithmetic of trust(), line 144
TrustScoreBackend(proofs, kycs) == Min(100, 40 + proofs * 10 + kycs * 30)

\* trust, line 142: count the proofs
trust_backend_proofs(p, sid) ==
    /\ variant = "backend"
    /\ procs[p].pc = "idle"
    /\ procs' = [procs EXCEPT ![p] =
            [op |-> "get_trust", pc |-> "tb_kyc", sid |-> sid, n |-> count_proofs(sid)]]
    /\ UNCHANGED <<variant, store>>

\* trust, lines 143-145: count the verified KYC documents, answer; nothing is written
trust_backend_kyc(p) ==
    /\ procs[p].pc = "tb_kyc"
    /\ procs' = [procs EXCEPT ![p] =
            [op |-> @.op, pc |-> "done", sid |-> @.sid, n |-> @.n,
             ts |-> TrustScoreBackend(@.n, count_verified_kyc(@.sid))]]
    /\ UNCHANGED <<variant, store>>

----------------------------------------------------------------------------
(* Donations: src/main.py *)

\* the range check of initiate_donation, lines 131-135: TRUE when neither raise fires
range_ok(sch, cur, amt) ==
    /\ ~(sch = "micro" /\ cur = "INR" /\ ~(10 <= amt /\ amt <= 5000))
    /\ ~(sch = "big" /\ cur = "INR" /\ ~(10000 <= amt /\ amt <= 1000000))

\* line 139: f"EDC-{donation.gateway}-{donation_id}"
payment_reference(gw, id) == <<"EDC", gw, id>>

\* db["donation"].find_one({"payment_reference": ref}): first match in store order
find_donation(ref) ==
    LET hits == {i \in 1..Len(donation) : donation[i].payment_reference = ref}
    IN IF hits = {} THEN 0 ELSE CHOOSE i \in hits : \A j \in hits : i <= j

\* initiate_donation, lines 131-138: validate, then insert the request body as sent
\* (status, payment_reference and blockchain_tx are fields of the Donation schema)
initiate_donation_insert(p, sch, cur, amt, gw, st_in, ref_in, tx_in) ==
    /\ variant = "main"
    /\ procs[p].pc = "idle"
    /\ IF range_ok(sch, cur, amt)
       THEN /\ donation' = create_document(donation,
                    [scholarship |-> sch, currency |-> cur, amount |-> amt, gateway |-> gw,
                     status |-> st_in, payment_reference |-> ref_in,
                     blockchain_tx |-> tx_in, gateway_tx |-> NoDoc, reference |-> NoRef])
            /\ procs' = [procs EXCEPT ![p] =
                    [op |-> "initiate_donation", pc |-> "don_ref", sch |-> sch, cur |-> cur,
                     amt |-> amt, gw |-> gw, id |-> InsertedId(donation)]]
       ELSE /\ procs' = [procs EXCEPT ![p] =
                    [op |-> "initiate_donation", pc |-> "failed", sch |-> sch, cur |-> cur,
                     amt |-> amt, gw |-> gw, code |-> 400]]
            /\ UNCHANGED donation
    /\ UNCHANGED <<variant, student, kycdocument, proofsubmission>>

\* initiate_donation, lines 139-146: store the reference and status "created"
initiate_donation_ref(p) ==
    /\ procs[p].pc = "don_ref"
    /\ LET r == procs[p]
           ref == payment_reference(r.gw, r.id)
       IN /\ donation' = update_one(donation, r.id,
                    [payment_reference |-> ref, status |-> "created"])
          /\ procs' = [procs EXCEPT ![p] =
                    [op |-> r.op, pc |-> "done", sch |-> r.sch, cur |-> r.cur, amt |-> r.amt,
                     gw |-> r.gw, id |-> r.id, reference |-> ref, status |-> "created"]]
    /\ UNCHANGED <<variant, student, kycdocument, proofsubmission>>

\* update.model_dump(exclude_none=True): reference and status always, the two
\* optional fields when given
webhook_patch(u) ==
    [f \in {"reference", "status"}
            \cup (IF u.gateway_tx # NoDoc THEN {"gateway_tx"} ELSE {})
            \cup (IF u.blockchain_tx # NoDoc THEN {"blockchain_tx"} ELSE {}) |-> u[f]]

\* a webhook that inserts the update as a new document instead of merging it
webhook_apply_insert(coll, id, u) ==
    Append(update_one(coll, id, webhook_patch(u)),
           [coll[id] EXCEPT !.status = u.status])

\* line 162: update_one({"_id": d["_id"]}, {"$set": ...})
webhook_apply(coll, id, u) == update_one(coll, id, webhook_patch(u))

\* donation_webhook, lines 159-161: find the donation by payment_reference, 404 if none.
\* first is the donation collection when this delivery repeats the previous one
\* (redelivery), kept to compare with
webhook_find_step(u, redelivery, first) ==
    IF find_donation(u.reference) = 0
    THEN [op |-> "donation_webhook", pc |-> "failed", u |-> u, code |-> 404]
    ELSE [op |-> "donation_webhook", pc |-> "wh_update", u |-> u,
          id |-> find_donation(u.reference), redelivery |-> redelivery, first |-> first]

donation_webhook_find(p, ref, st, gtx, btx) ==
    /\ variant = "main"
    /\ procs[p].pc = "idle"
    /\ procs' = [procs EXCEPT ![p] =
            webhook_find_step([reference |-> ref, status |-> st, gateway_tx |-> gtx,
                               blockchain_tx |-> btx], FALSE, <<>>)]
    /\ UNCHANGED <<variant, store>>

\* donation_webhook, lines 162-163, writing back the document as the batch found
\* it with the update merged in, instead of a $set on the stored document
donation_webhook_update_stale(p) ==
    /\ procs[p].pc = "wh_update"
    /\ donation' = [donation EXCEPT ![procs[p].id] =
            webhook_apply(procs[p].first, procs[p].id, procs[p].u)[procs[p].id]]
    /\ procs' = [procs EXCEPT ![p] = [@ EXCEPT !.pc = "done"]]
    /\ UNCHANGED <<variant, student, kycdocument, proofsubmission>>

\* donation_webhook, lines 162-163
donation_webhook_update(p) ==
    /\ procs[p].pc = "wh_update"
    /\ donation' = webhook_apply(donation, procs[p].id, procs[p].u)
    /\ procs' = [procs EXCEPT ![p] = [@ EXCEPT !.pc = "done"]]
    /\ UNCHANGED <<variant, student, kycdocument, proofsubmission>>

\* at-least-once delivery: the sender delivers the payload it was just answered for
\* once more, before any other request
donation_webhook_redeliver(p) ==
    /\ variant = "main"
    /\ procs[p].op = "donation_webhook"
    /\ procs[p].pc = "done"
    /\ \A q \in Procs \ {p} : procs[q].pc = "idle"
    /\ procs' = [procs EXCEPT ![p] = webhook_find_step(@.u, TRUE, donation)]
    /\ UNCHANGED <<variant, store>>

\* the deliveries in flight or answered since the workers were last all idle form
\* a batch; base is the donation collection the batch started from, kept in each
\* delivery's record to compare with
Delivered(q) == procs[q].op = "donation_webhook" /\ procs[q].pc \in {"wh_update", "done"}
BatchBase ==
    IF \E q \in Procs : Delivered(q)
    THEN procs[CHOOSE q \in Procs : Delivered(q)].first
    ELSE donation

\* donation_webhook, lines 159-161, for a delivery that arrives while others are
\* being handled
donation_webhook_concurrent(p, u) ==
    /\ variant = "main"
    /\ procs[p].pc = "idle"
    /\ procs' = [procs EXCEPT ![p] = webhook_find_step(u, FALSE, BatchBase)]
    /\ UNCHANGED <<variant, store>>

\* record_blockchain_tx, lines 168-170: keyed by the donation's own _id
record_blockchain_tx(p, donation_id, tx_hash) ==
    /\ variant = "main"
    /\ procs[p].pc = "idle"
    /\ IF oid_ok(donation_id)
       THEN /\ donation' = update_one(donation, donation_id, [blockchain_tx |-> tx_hash])
            /\ procs' = [procs EXCEPT ![p] =
                    [op |-> "record_blockchain_tx", pc |-> "done",
                     donation_id |-> donation_id, tx_hash |-> tx_hash]]
       ELSE /\ procs' = [procs EXCEPT ![p] =
                    [op |-> "record_blockchain_tx", pc |-> "failed",
                     donation_id |-> donation_id, tx_hash |-> tx_hash, code |-> 400]]
            /\ UNCHANGED donation
    /\ UNCHANGED <<variant, student, kycdocument, proofsubmission>>

----------------------------------------------------------------------------
(* Donations: src/backend/main.py *)

\* donation.currency.upper(), on the currencies of the model
upper(cur) == IF cur = "inr" THEN "INR" ELSE cur

\* the range check of initiate_donation, lines 79-83
range_ok_backend(sch, cur, amt) ==
    upper(cur) = "INR" =>
        /\ ~(sch = "micro" /\ ~(10 <= amt /\ amt <= 5000))
        /\ ~(sch = "big" /\ ~(10000 <= amt /\ amt <= 1000000))

\* initiate_donation: validate, insert, answer with the document id as reference.
\* The Donation schema of this variant has no status, payment_reference or
\* blockchain_tx field.
initiate_donation_backend(p, sch, cur, amt, gw) ==
    /\ variant = "backend"
    /\ procs[p].pc = "idle"
    /\ IF range_ok_backend(sch, cur, amt)
       THEN /\ donation' = create_document_backend(donation,
                    [scholarship |-> sch, currency |-> cur, amount |-> amt, gateway |-> gw,
                     status |-> NoDoc, payment_reference |-> NoRef,
                     blockchain_tx |-> NoDoc, gateway_tx |-> NoDoc, reference |-> NoRef])
            /\ procs' = [procs EXCEPT ![p] =
                    [op |-> "initiate_donation", pc |-> "done", sch |-> sch, cur |-> cur,
                     amt |-> amt, gw |-> gw, id |-> InsertedId(donation),
                     reference |-> <<InsertedId(donation)>>, status |-> "created"]]
       ELSE /\ procs' = [procs EXCEPT ![p] =
                    [op |-> "initiate_donation", pc |-> "failed", sch |-> sch, cur |-> cur,
                     amt |-> amt, gw |-> gw, code |-> 400]]
            /\ UNCHANGED donation
    /\ UNCHANGED <<variant, student, kycdocument, proofsubmission>>

\* donation_webhook: answers "received", reads and writes nothing
webhook_backend_step(u, redelivery, first) ==
    [op |-> "donation_webhook", pc |-> "done", u |-> u, id |-> 0,
     redelivery |-> redelivery, first |-> first]

donation_webhook_backend(p, ref, st) ==
    /\ variant = "backend"
    /\ procs[p].pc = "idle"
    /\ procs' = [procs EXCEPT ![p] =
            webhook_backend_step([reference |-> ref, status |-> st, gateway_tx |-> NoDoc,
                                  blockchain_tx |-> NoDoc], FALSE, <<>>)]
    /\ UNCHANGED <<variant, store>>

donation_webhook_backend_redeliver(p) ==
    /\ variant = "backend"
    /\ procs[p].op = "donation_webhook"
    /\ procs[p].pc = "done"
    /\ \A q \in Procs \ {p} : procs[q].pc = "idle"
    /\ procs' = [procs EXCEPT ![p] = webhook_backend_step(@.u, TRUE, donation)]
    /\ UNCHANGED <<variant, store>>

\* record_on_chain: a placeholder, answers "recorded" and writes nothing
record_on_chain(p, donation_id, tx_hash) ==
    /\ variant = "backend"
    /\ procs[p].pc = "idle"
    /\ procs' = [procs EXCEPT ![p] =
            [op |-> "record_blockchain_tx", pc |-> "done",
             donation_id |-> donation_id, tx_hash |-> tx_hash]]
    /\ UNCHANGED <<variant, store>>

----------------------------------------------------------------------------
(* Heatmap *)

\* the $match stage of both pipelines: the students stored with a location
located == {i \in 1..Len(student) : "location" \in DOMAIN student[i]}

\* the $group stage: one group with its count per key; the students of the model
\* share one key
aggregate == IF located = {} THEN <<>> ELSE <<[count |-> Cardinality(located)]>>

\* db of the database module src/main.py imports (not among the sources): an
\* access to the store fails when the store has no live connection
db_fails(live) == ~live

\* heatmap of src/main.py, lines 193-202: db["student"].aggregate(...) with nothing
\* around it that catches a failure; live tells whether the store answers
heatmap(p, live) ==
    /\ variant = "main"
    /\ procs[p].pc = "idle"
    /\ procs' = [procs EXCEPT ![p] =
            IF db_fails(live)
            THEN [op |-> "heatmap", pc |-> "failed", live |-> live, code |-> 500]
            ELSE [op |-> "heatmap", pc |-> "done", live |-> live, points |-> aggregate]]
    /\ UNCHANGED <<variant, store>>

\* heatmap of src/backend/main.py, lines 121-133: [] when db() is None or the
\* aggregation raises
heatmap_backend(p, live) ==
    /\ variant = "backend"
    /\ procs[p].pc = "idle"
    /\ procs' = [procs EXCEPT ![p] =
            [op |-> "heatmap", pc |-> "done", live |-> live,
             points |-> IF live THEN aggregate ELSE <<>>]]
    /\ UNCHANGED <<variant, store>>

----------------------------------------------------------------------------
(* The response leaves; the worker is free again *)

Return(p) ==
    /\ procs[p].pc \in {"done", "failed"}
    /\ procs' = [procs EXCEPT ![p] = Idle]
    /\ UNCHANGED <<variant, store>>

\* the responses of a batch of requests leave once all of them are answered
ReturnAll ==
    /\ \A q \in Procs : procs[q].pc \in {"idle", "done", "failed"}
    /\ ~AllIdle
    /\ procs' = [q \in Procs |-> Idle]
    /\ UNCHANGED <<variant, store>>

----------------------------------------------------------------------------
(* Specifications *)

Init ==
    /\ variant \in {"main", "backend"}
    /\ student = <<>>
    /\ kycdocument = <<>>
    /\ proofsubmission = EmptyBag
    /\ donation = <<>>
    /\ procs = [p \in Procs |-> Idle]

\* ids a request may name: the students that exist
StudentRefs == 1..Len(student)

\* the later steps of the student, KYC, proof and trust handlers
TrustSteps(p) ==
    \/ create_student_init(p)
    \/ submit_kyc_write(p)
    \/ submit_kyc_status(p)
    \/ ct_student(p)
    \/ ct_kyc(p)
    \/ ct_proofs(p)
    \/ ts_write(p)
    \/ trust_backend_kyc(p)
    \/ Return(p)

\* One request at a time (worker 1): students, KYC, proofs and trust queries
NextScore ==
    \/ \E t \in ScoreInputs, k \in StudentKycStatuses :
          AllIdle /\ Len(student) < SeqStudents /\ create_student_insert(1, t, k)
    \/ \E t \in ScoreInputs \cup {NoScore} :
          AllIdle /\ Len(student) < SeqStudents /\ create_student_backend(1, t)
    \/ \E s \in StudentRefs, st \in KycStatuses :
          AllIdle /\ Len(kycdocument) < SeqKyc /\ submit_kyc_find(1, s, st)
    \/ \E s \in StudentRefs, st \in KycStatuses :
          AllIdle /\ Len(kycdocument) < SeqKyc /\ submit_kyc_backend(1, s, st)
    \/ \E s \in StudentRefs :
          AllIdle /\ BagCardinality(proofsubmission) < SeqProofs /\ submit_proof_insert(1, s)
    \/ \E s \in StudentRefs :
          AllIdle /\ BagCardinality(proofsubmission) < SeqProofs /\ submit_proof_backend(1, s)
    \/ \E s \in StudentRefs : AllIdle /\ get_trust(1, s)
    \/ \E s \in StudentRefs : AllIdle /\ trust_backend_proofs(1, s)
    \/ TrustSteps(1)

SpecScore == Init /\ [][NextScore]_vars

\* Requests interleave freely over the workers: students, KYC, proofs, trust queries
NextRace ==
    \E p \in Procs :
        \/ \E t \in ScoreInputs, k \in StudentKycStatuses :
              Len(student) < RaceStudents /\ create_student_insert(p, t, k)
        \/ \E t \in ScoreInputs \cup {NoScore} :
              Len(student) < RaceStudents /\ create_student_backend(p, t)
        \/ \E s \in StudentRefs, st \in KycStatuses :
              Len(kycdocument) < RaceKyc /\ submit_kyc_find(p, s, st)
        \/ \E s \in StudentRefs, st \in KycStatuses :
              Len(kycdocument) < RaceKyc /\ submit_kyc_backend(p, s, st)
        \/ \E s \in StudentRefs :
              BagCardinality(proofsubmission) < RaceProofs /\ submit_proof_insert(p, s)
        \/ \E s \in StudentRefs :
              BagCardinality(proofsubmission) < RaceProofs /\ submit_proof_backend(p, s)
        \/ \E s \in StudentRefs : get_trust(p, s)
        \/ \E s \in StudentRefs : trust_backend_proofs(p, s)
        \/ TrustSteps(p)

SpecRace == Init /\ [][NextRace]_vars

\* One request at a time: initiate over every tier, currency and boundary amount
NextInitiate ==
    \/ \E sch \in Scholarships, cur \in Currencies, amt \in BoundaryAmounts :
          /\ AllIdle /\ Len(donation) < InitDonations
          /\ initiate_donation_insert(1, sch, cur, amt, "upi", "created", NoRef, NoDoc)
    \/ \E sch \in Scholarships, cur \in Currencies, amt \in BoundaryAmounts :
          /\ AllIdle /\ Len(donation) < InitDonations
          /\ initiate_donation_backend(1, sch, cur, amt, "upi")
    \/ initiate_donation_ref(1)
    \/ Return(1)

SpecInitiate == Init /\ [][NextInitiate]_vars

\* the references a webhook sender may name: those of the donations that exist or
\* may come to exist
Refs(n) == {payment_reference(g, i) : g \in Gateways, i \in 1..n}
\* the donation ids a request may name
DonationRefs == (1..Len(donation)) \cup {GhostId, BadId}

\* One request at a time: the donation lifecycle, with the status, payment_reference
\* and blockchain_tx a client may put into the initiate request body
NextDonation ==
    \/ \E amt \in {9, 10}, gw \in Gateways, st \in {"created", "succeeded"},
          ref \in {NoRef, payment_reference("upi", 1)}, tx \in {NoDoc, "0xa"} :
          /\ AllIdle /\ Len(donation) < MaxDonations
          /\ initiate_donation_insert(1, "micro", "INR", amt, gw, st, ref, tx)
    \/ \E amt \in {9, 10}, gw \in Gateways :
          /\ AllIdle /\ Len(donation) < MaxDonations
          /\ initiate_donation_backend(1, "micro", "INR", amt, gw)
    \/ \E ref \in Refs(MaxDonations), st \in DonationStatuses,
          gtx \in {NoDoc, "gw-1"}, btx \in {NoDoc, "0xa"} :
          AllIdle /\ donation_webhook_find(1, ref, st, gtx, btx)
    \/ \E ref \in Refs(MaxDonations), st \in DonationStatuses :
          AllIdle /\ donation_webhook_backend(1, ref, st)
    \/ \E d \in DonationRefs, tx \in TxHashes : AllIdle /\ record_blockchain_tx(1, d, tx)
    \/ \E d \in DonationRefs, tx \in TxHashes : AllIdle /\ record_on_chain(1, d, tx)
    \/ initiate_donation_ref(1)
    \/ donation_webhook_update(1)
    \/ Return(1)

SpecDonation == Init /\ [][NextDonation]_vars

\* One request at a time: donations, webhooks, and redelivery of the webhook just
\* answered
NextRedeliver ==
    \/ /\ AllIdle /\ Len(donation) < RetryDonations
       /\ initiate_donation_insert(1, "micro", "INR", 10, "upi", "created", NoRef, NoDoc)
    \/ /\ AllIdle /\ Len(donation) < RetryDonations
       /\ initiate_donation_backend(1, "micro", "INR", 10, "upi")
    \/ \E i \in 1..RetryDonations, st \in DonationStatuses,
          gtx \in {NoDoc, "gw-1"}, btx \in {NoDoc, "0xa"} :
          AllIdle /\ donation_webhook_find(1, payment_reference("upi", i), st, gtx, btx)
    \/ \E i \in 1..RetryDonations, st \in DonationStatuses :
          AllIdle /\ donation_webhook_backend(1, payment_reference("upi", i), st)
    \/ donation_webhook_redeliver(1)
    \/ donation_webhook_backend_redeliver(1)
    \/ initiate_donation_ref(1)
    \/ donation_webhook_update(1)
    \/ Return(1)

SpecRedeliver == Init /\ [][NextRedeliver]_vars

\* the student ids a request may name when ids are not checked by the caller:
\* existing students, a well-formed id of no student, a malformed id
AnyStudentRefs == StudentRefs \cup {GhostId, BadId}

\* One request at a time: KYC, proofs and trust queries that may name a student
\* that does not exist, and the heatmap with and without a live store connection
NextLookup ==
    \/ /\ AllIdle /\ Len(student) < LookupStudents
       /\ create_student_insert(1, 0, "not_submitted")
    \/ /\ AllIdle /\ Len(student) < LookupStudents
       /\ create_student_backend(1, 0)
    \/ \E s \in AnyStudentRefs, st \in {"pending", "verified"} :
          AllIdle /\ Len(kycdocument) < LookupKyc /\ submit_kyc_find(1, s, st)
    \/ \E s \in AnyStudentRefs, st \in {"pending", "verified"} :
          AllIdle /\ Len(kycdocument) < LookupKyc /\ submit_kyc_backend(1, s, st)
    \/ \E s \in AnyStudentRefs :
          AllIdle /\ BagCardinality(proofsubmission) < LookupProofs /\ submit_proof_insert(1, s)
    \/ \E s \in AnyStudentRefs :
          AllIdle /\ BagCardinality(proofsubmission) < LookupProofs /\ submit_proof_backend(1, s)
    \/ \E s \in AnyStudentRefs : AllIdle /\ get_trust(1, s)
    \/ \E s \in AnyStudentRefs : AllIdle /\ trust_backend_proofs(1, s)
    \/ \E live \in BOOLEAN : AllIdle /\ heatmap(1, live)
    \/ \E live \in BOOLEAN : AllIdle /\ heatmap_backend(1, live)
    \/ TrustSteps(1)

SpecLookup == Init /\ [][NextLookup]_vars

\* Student creation alone, requests interleaving over the workers
NextCreate ==
    \E p \in Procs :
        \/ \E t \in ScoreInputs, k \in StudentKycStatuses :
              Len(student) < CreateStudents /\ create_student_insert(p, t, k)
        \/ \E t \in ScoreInputs \cup {NoScore} :
              Len(student) < CreateStudents /\ create_student_backend(p, t)
        \/ create_student_init(p)
        \/ Return(p)

SpecCreate == Init /\ [][NextCreate]_vars

\* the webhook updates of the concurrent model: they overlap in status and
\* gateway_tx and differ in the optional fields they carry
HookUpdates ==
    {[reference |-> payment_reference("upi", i), status |-> u[1], gateway_tx |-> u[2],
      blockchain_tx |-> u[3]] :
        i \in 1..HookDonations,
        u \in {<<"succeeded", "gw-1", NoDoc>>, <<"failed", NoDoc, "0xa">>,
               <<"refunded", "gw-2", NoDoc>>}}

\* Donations are initiated one at a time; webhook deliveries interleave freely
\* over the workers
NextWebhookRace ==
    \/ /\ AllIdle /\ Len(donation) < HookDonations
       /\ initiate_donation_insert(1, "micro", "INR", 10, "upi", "created", NoRef, NoDoc)
    \/ /\ AllIdle /\ Len(donation) < HookDonations
       /\ initiate_donation_backend(1, "micro", "INR", 10, "upi")
    \/ initiate_donation_ref(1)
    \/ \E p \in Procs, u \in HookUpdates :
          /\ \A q \in Procs : procs[q].op \in {"idle", "donation_webhook"}
          /\ donation_webhook_concurrent(p, u)
    \/ \E p \in Procs, u \in HookUpdates :
          /\ \A q \in Procs : procs[q].op \in {"idle", "donation_webhook"}
          /\ donation_webhook_backend(p, u.reference, u.status)
    \/ \E p \in Procs : donation_webhook_update(p)
    \/ ReturnAll

SpecWebhookRace == Init /\ [][NextWebhookRace]_vars

----------------------------------------------------------------------------
(* Trust score claims *)

\* the KYC state of a student: the status of the student's KYC document, NoDoc
\* without one
KycState(sid) == IF find_kyc(sid) = 0 THEN NoDoc ELSE kycdocument[find_kyc(sid)].status

\* the documented score: 10 + k + min(30, 5n), clamped to 0..100
KycBonus(k) ==
    CASE k = NoDoc -> 0
      [] k = "pending" -> 40
      [] k = "verified" -> 60
      [] k = "rejected" -> 30
DocumentedScore(k, n) == Min(100, Max(0, 10 + KycBonus(k) + Min(30, 5 * n)))

\* a request of src/main.py that has computed a trust score
Computed(p) ==
    /\ variant = "main"
    /\ procs[p].op \in {"submit_kyc", "submit_proof", "get_trust"}
    /\ procs[p].pc \in {"ts_write", "done"}
    /\ procs[p].ts # NoScore

\* C1: for an existing student, in any KYC state and with any number n of proof
\* submissions, compute_trust_score returns min(100, max(0, 10 + k + min(30, 5n)))
\* with k = 0 without a KYC record, 40 pending, 60 verified, 30 rejected.
C1_ScoreFormula ==
    \A p \in Procs :
        Computed(p) =>
            procs[p].ts = DocumentedScore(KycState(procs[p].sid), count_proofs(procs[p].sid))

\* a score was computed for a student with a rejected KYC document and more
\* proofs than the cap counts
C1_Witness ==
    \E p \in Procs :
        /\ Computed(p)
        /\ KycState(procs[p].sid) = "rejected"
        /\ count_proofs(procs[p].sid) > 6
        /\ procs[p].ts = 70

\* C2: whenever no request is in flight, every student's stored trust_score is
\* the value the trust computation yields for the student's current KYC document
\* and proof submissions (src/main.py).
C2_StoredScoreCurrent ==
    (variant = "main" /\ AllIdle) =>
        \A s \in 1..Len(student) :
            student[s].trust_score = TrustScore(KycState(s), count_proofs(s))

\* the same for the students whose stored score is not the initial 0: refuted by
\* two interleaved recomputations
C2_RecomputedScoreCurrent ==
    (variant = "main" /\ AllIdle) =>
        \A s \in 1..Len(student) :
            student[s].trust_score # 0 =>
                student[s].trust_score = TrustScore(KycState(s), count_proofs(s))

\* C3: the kycdocument collection holds at most one document per student_id.
C3_OneKycPerStudent ==
    \A i, j \in 1..Len(kycdocument) :
        kycdocument[i].student_id = kycdocument[j].student_id => i = j

\* the same for src/main.py alone: refuted by two interleaved submissions
C3_OneKycPerStudentMain == variant = "main" => C3_OneKycPerStudent

----------------------------------------------------------------------------
(* Donation claims *)

TerminalStatuses == {"succeeded", "failed", "refunded"}

\* C4: once a donation's status is succeeded, failed or refunded, no later
\* operation changes that donation's status (src/main.py).
C4_TerminalStatus ==
    [][variant = "main" =>
        \A d \in 1..Len(donation) :
            donation[d].status \in TerminalStatuses =>
                donation'[d].status = donation[d].status]_vars

\* C5: a donation record has status created from the moment it is first persisted,
\* and its status changes only by the update step of a webhook whose reference is
\* that donation's payment_reference (src/main.py).
C5_StatusOnlyByWebhook ==
    [][variant = "main" =>
        /\ \A d \in (Len(donation) + 1)..Len(donation') : donation'[d].status = "created"
        /\ \A d \in 1..Len(donation) :
              donation'[d].status # donation[d].status =>
                  \E p \in Procs :
                      /\ procs[p].op = "donation_webhook"
                      /\ procs[p].pc = "wh_update"
                      /\ procs'[p].pc = "done"
                      /\ procs[p].u.reference = donation[d].payment_reference]_vars

\* the documented bound of a tier
InTierBound(sch, amt) ==
    CASE sch = "micro" -> 10 <= amt /\ amt <= 5000
      [] sch = "big" -> 10000 <= amt /\ amt <= 1000000

\* the documented acceptance rule of initiate
DocumentedAccept(sch, cur, amt) == cur # "INR" \/ InTierBound(sch, amt)

\* C6: initiate accepts a donation if and only if its currency is not INR or its
\* amount lies within the inclusive bound of its tier; a rejected initiate persists
\* no donation record and leaves every existing record unchanged.
C6_InitiateAccepts ==
    [][\A p \in Procs :
        (procs[p].pc = "idle" /\ procs'[p].op = "initiate_donation") =>
            /\ (procs'[p].pc # "failed") <=>
                    DocumentedAccept(procs'[p].sch, procs'[p].cur, procs'[p].amt)
            /\ procs'[p].pc = "failed" => store' = store]_vars

\* the same for src/main.py alone
C6_InitiateAcceptsMain ==
    [][variant = "main" =>
        \A p \in Procs :
            (procs[p].pc = "idle" /\ procs'[p].op = "initiate_donation") =>
                /\ (procs'[p].pc # "failed") <=>
                        DocumentedAccept(procs'[p].sch, procs'[p].cur, procs'[p].amt)
                /\ procs'[p].pc = "failed" => store' = store]_vars

\* the reference answered and the one stored are EDC-<gateway>-<id>
ReferenceAsDocumented ==
    \A p \in Procs :
        (procs[p].op = "initiate_donation" /\ procs[p].pc = "done") =>
            /\ procs[p].reference = <<"EDC", procs[p].gw, procs[p].id>>
            /\ donation[procs[p].id].payment_reference = <<"EDC", procs[p].gw, procs[p].id>>

\* no two donation records carry the same payment_reference
ReferenceUnique ==
    \A i, j \in 1..Len(donation) :
        (i # j /\ donation[i].payment_reference # NoRef) =>
            donation[i].payment_reference # donation[j].payment_reference

\* C7: after a successful initiate the reference returned and the payment_reference
\* stored on the new donation both equal EDC-<gateway>-<id>, and in every reachable
\* state no two donation records carry the same payment_reference.
C7_PaymentReference == ReferenceAsDocumented /\ ReferenceUnique

\* the two halves for src/main.py alone
C7_ReferenceAsDocumentedMain == variant = "main" => ReferenceAsDocumented
C7_ReferenceUniqueMain == variant = "main" => ReferenceUnique

\* C8: a webhook update whose reference matches no donation's payment_reference
\* fails with NotFound and leaves the store unchanged.
C8_UnknownReference ==
    [][\A p \in Procs :
        (/\ procs[p].pc = "idle"
         /\ procs'[p].op = "donation_webhook"
         /\ find_donation(procs'[p].u.reference) = 0) =>
            /\ procs'[p].pc = "failed"
            /\ procs'[p].code = 404
            /\ store' = store]_vars

\* the same for src/main.py alone
C8_UnknownReferenceMain ==
    [][variant = "main" =>
        \A p \in Procs :
            (/\ procs[p].pc = "idle"
             /\ procs'[p].op = "donation_webhook"
             /\ find_donation(procs'[p].u.reference) = 0) =>
                /\ procs'[p].pc = "failed"
                /\ procs'[p].code = 404
                /\ store' = store]_vars

\* C9: applying the same webhook payload twice in a row to an existing donation is
\* idempotent: after the second application the donation collection is what the
\* first application left.
C9_WebhookIdempotent ==
    \A p \in Procs :
        (/\ procs[p].op = "donation_webhook"
         /\ procs[p].pc = "done"
         /\ procs[p].redelivery) =>
            donation = procs[p].first

\* a redelivered webhook of src/main.py has been applied to the second of two
\* donations, which it had moved to refunded with a gateway transaction id
C9_Witness ==
    \E p \in Procs :
        /\ variant = "main"
        /\ procs[p].op = "donation_webhook"
        /\ procs[p].pc = "done"
        /\ procs[p].redelivery
        /\ procs[p].id = 2
        /\ donation[2].status = "refunded"
        /\ donation[2].gateway_tx = "gw-1"
        /\ donation[1].status = "created"

\* what attachBlockchainTx is documented to leave behind
AttachedTx(donation_id, tx_hash) ==
    IF donation_id \in 1..Len(donation)
    THEN [donation EXCEPT ![donation_id].blockchain_tx = tx_hash]
    ELSE donation

\* C10: attachBlockchainTx(donationId, txHash) sets blockchain_tx to txHash on
\* exactly the donation whose own id is donationId and leaves its status, its
\* payment_reference and every other record unchanged; when no donation has that
\* id, the store is left unchanged.
C10_AttachBlockchainTx ==
    [][\A p \in Procs :
        (procs[p].pc = "idle" /\ procs'[p].op = "record_blockchain_tx") =>
            /\ donation' = AttachedTx(procs'[p].donation_id, procs'[p].tx_hash)
            /\ UNCHANGED <<student, kycdocument, proofsubmission>>]_vars

\* the same for src/main.py alone
C10_AttachBlockchainTxMain ==
    [][variant = "main" =>
        \A p \in Procs :
            (procs[p].pc = "idle" /\ procs'[p].op = "record_blockchain_tx") =>
                /\ donation' = AttachedTx(procs'[p].donation_id, procs'[p].tx_hash)
                /\ UNCHANGED <<student, kycdocument, proofsubmission>>]_vars

----------------------------------------------------------------------------
(* Trust query and trust_score claims *)

\* a well-formed student id that resolves to no student record
UnknownStudent(sid) == oid_ok(sid) /\ ~student_exists(sid)

\* every step of a trust query does what is documented for its student_id
TrustQueryContract ==
    \A p \in Procs :
        (procs'[p] # procs[p] /\ procs'[p].op = "get_trust") =>
            /\ UnknownStudent(procs'[p].sid) =>
                    /\ procs'[p].pc # "done"
                    /\ procs'[p].pc = "failed" => procs'[p].code = 404
                    /\ store' = store
            /\ student_exists(procs'[p].sid) => procs'[p].pc # "failed"

\* C11: an on-demand trust query for a student_id that resolves to no student
\* record fails with NotFound, returns no score and writes nothing to the store;
\* for an existing student the query does not fail, with or without a KYC record
\* or proofs.
C11_UnknownStudent == [][TrustQueryContract]_vars

\* the same for src/main.py alone
C11_UnknownStudentMain == [][variant = "main" => TrustQueryContract]_vars

\* the answer a completed trust query gave for a student in the given KYC state
\* with n proofs, if the student is in that state
TrustQueryAnswers(k, n, score) ==
    \A p \in Procs :
        (/\ procs[p].op = "get_trust"
         /\ procs[p].pc = "done"
         /\ KycState(procs[p].sid) = k
         /\ count_proofs(procs[p].sid) = n) =>
            procs[p].ts = score

\* C12: in both variants the trust query returns 10 for a student with no KYC
\* record and no proofs, 70 for a student with a verified KYC record and no
\* proofs, and 80 for a student with a pending KYC record and 8 proofs.
C12_TrustQueryExamples ==
    /\ TrustQueryAnswers(NoDoc, 0, 10)
    /\ TrustQueryAnswers("verified", 0, 70)
    /\ TrustQueryAnswers("pending", 8, 80)

\* the same for src/main.py alone
C12_TrustQueryExamplesMain == variant = "main" => C12_TrustQueryExamples

\* the backend variant on the two examples other than the verified one
C12_BackendNoEvidence == variant = "backend" => TrustQueryAnswers(NoDoc, 0, 40)
C12_BackendPendingEight == variant = "backend" => TrustQueryAnswers("pending", 8, 100)

\* a create-student request that has completed
Created(p) == procs[p].op = "create_student" /\ procs[p].pc = "done"

\* C13: the trust_score stored on a newly created student does not depend on the
\* trust_score supplied in the creation request: two completed create-student
\* requests that differ only in the supplied trust_score (their other stored
\* fields agree) leave identical student records.
C13_ScoreIndependentOfInput ==
    \A p, q \in Procs :
        (/\ Created(p) /\ Created(q)
         /\ student[procs[p].id].kyc_status = student[procs[q].id].kyc_status) =>
            student[procs[p].id] = student[procs[q].id]

\* the same for src/main.py alone
C13_ScoreIndependentOfInputMain == variant = "main" => C13_ScoreIndependentOfInput

\* C14: in every reachable state, the intermediate states of multi-step requests
\* included, every student's stored trust_score lies in 0..100 (src/main.py).
C14_StoredScoreInRange ==
    variant = "main" =>
        \A s \in 1..Len(student) :
            0 <= student[s].trust_score /\ student[s].trust_score <= 100

\* a student of src/main.py holds the largest score, 100, written for a verified
\* KYC document and more proofs than the cap counts, while a request is in flight
C14_Witness ==
    /\ variant = "main"
    /\ ~AllIdle
    /\ \E s \in 1..Len(student) :
          /\ student[s].trust_score = 100
          /\ KycState(s) = "verified"
          /\ count_proofs(s) > 6

\* a completed request of src/main.py that recomputes the trust score of an
\* existing student
Recomputed(p) ==
    /\ variant = "main"
    /\ procs[p].op \in {"submit_kyc", "submit_proof", "get_trust"}
    /\ procs[p].pc = "done"
    /\ student_exists(procs[p].sid)

\* C16: with requests run one at a time, each completed KYC submission, proof
\* submission or trust query for an existing student leaves the student's stored
\* trust_score equal to the score the request returned, which is the documented
\* score of the KYC and proof records as they are after the request.
C16_RecomputePersisted ==
    \A p \in Procs :
        Recomputed(p) =>
            /\ procs[p].ts # NoScore
            /\ student[procs[p].sid].trust_score = procs[p].ts
            /\ procs[p].ts = DocumentedScore(KycState(procs[p].sid), count_proofs(procs[p].sid))

\* each of the three triggers has completed for a student whose stored score is
\* then neither the initial 0 nor the score of a student without evidence
C16_WitnessKyc ==
    \E p \in Procs :
        /\ Recomputed(p) /\ procs[p].op = "submit_kyc"
        /\ student[procs[p].sid].trust_score = 85
C16_WitnessProof ==
    \E p \in Procs :
        /\ Recomputed(p) /\ procs[p].op = "submit_proof"
        /\ student[procs[p].sid].trust_score = 65
C16_WitnessQuery ==
    \E p \in Procs :
        /\ Recomputed(p) /\ procs[p].op = "get_trust"
        /\ student[procs[p].sid].trust_score = 100

\* what a step of a proof submission naming no existing student does: the first
\* step writes the proof; the recompute then fails, which leaves the proofs and
\* the students as they are and completes the request with the proof id and no score
ProofKeptOnFailure(p) ==
    /\ student' = student
    /\ procs[p].pc = "idle" =>
            /\ count_proofs(procs'[p].sid) + 1 = CopiesIn(procs'[p].sid, proofsubmission')
            /\ procs'[p].pc \notin {"done", "failed"}
    /\ procs[p].pc # "idle" =>
            /\ proofsubmission' = proofsubmission
            /\ procs'[p].pc = "done"
            /\ procs'[p].ts = NoScore
            /\ procs'[p].id = procs[p].id

\* C17: if the trust recompute fails during a proof submission (the student_id
\* resolves to no student), the proof record written by the request stays
\* persisted, no student record is modified, and the request returns the proof id
\* with a null trust score (src/main.py).
C17_ProofKeptOnFailure ==
    [][variant = "main" =>
        \A p \in Procs :
            (/\ procs'[p] # procs[p]
             /\ procs'[p].op = "submit_proof"
             /\ ~student_exists(procs'[p].sid)) => ProofKeptOnFailure(p)]_vars

\* a second proof submission for an unknown student has been answered with no
\* score, both proofs are stored, and the one student that exists is untouched
C17_Witness ==
    \E p \in Procs :
        /\ variant = "main"
        /\ procs[p].op = "submit_proof" /\ procs[p].pc = "done"
        /\ procs[p].sid = GhostId
        /\ procs[p].ts = NoScore
        /\ procs[p].id = 2
        /\ count_proofs(GhostId) = 2
        /\ Len(student) = 1 /\ student[1].trust_score = 0

----------------------------------------------------------------------------
(* Concurrency claims *)

\* one delivery handled alone, as documented: the donation whose
\* payment_reference is the update's reference gets the update's reference and
\* status, and its gateway_tx and blockchain_tx when the update carries them
DocumentedDelivery(coll, u) ==
    LET hits == {i \in 1..Len(coll) : coll[i].payment_reference = u.reference}
    IN IF hits = {} THEN coll
       ELSE LET i == CHOOSE i \in hits : \A j \in hits : i <= j
            IN [coll EXCEPT ![i] =
                 [f \in DOMAIN @ |->
                    IF f \in {"reference", "status"} THEN u[f]
                    ELSE IF f \in {"gateway_tx", "blockchain_tx"} /\ u[f] # NoDoc THEN u[f]
                    ELSE @[f]]]

\* the collections that delivering the updates of the requests P one at a time,
\* in any order, produces from coll
RECURSIVE SerialOutcomes(_, _)
SerialOutcomes(coll, P) ==
    IF P = {} THEN {coll}
    ELSE UNION {SerialOutcomes(DocumentedDelivery(coll, procs[p].u), P \ {p}) : p \in P}

\* the deliveries of the current batch, all of them answered
Batch == {p \in Procs : procs[p].op = "donation_webhook"}
BatchAnswered == Batch # {} /\ \A p \in Procs : procs[p].pc \in {"idle", "done", "failed"}

\* C18: for webhook deliveries for the same payment_reference that run
\* concurrently, the donation records after all of them complete are those that
\* applying the same updates one at a time in some order produces (src/main.py).
C18_WebhooksSerializable ==
    (variant = "main" /\ BatchAnswered) => donation \in SerialOutcomes(BatchBase, Batch)

\* every worker has delivered a different update for the first donation in one
\* batch that started from the record as initiate left it, and the record carries
\* fields of two of the updates
C18_Witness ==
    /\ variant = "main"
    /\ \A p \in Procs : procs[p].op = "donation_webhook" /\ procs[p].pc = "done" /\ procs[p].id = 1
    /\ \A p, q \in Procs : p # q => procs[p].u # procs[q].u
    /\ BatchBase[1].status = "created"
    /\ donation[1].gateway_tx # NoDoc
    /\ donation[1].blockchain_tx = "0xa"

\* the kyc_status documented for a student: the status of the student's KYC
\* document, not_submitted without one
DocumentedKycStatus(sid) == IF KycState(sid) = NoDoc THEN "not_submitted" ELSE KycState(sid)

\* the KYC documents of a student
KycDocs(sid) == {i \in 1..Len(kycdocument) : kycdocument[i].student_id = sid}

\* C19: under any interleaving of KYC submissions for the same existing student,
\* whenever no request is in flight the student's kyc_status equals the status of
\* the student's KYC document, and is not_submitted when there is none
\* (src/main.py).
C19_KycStatusMatches ==
    (variant = "main" /\ AllIdle) =>
        \A s \in 1..Len(student) : student[s].kyc_status = DocumentedKycStatus(s)

\* the same for the students with exactly one KYC document: refuted by two
\* interleaved submissions that both update that document
C19_KycStatusMatchesOneDocument ==
    (variant = "main" /\ AllIdle) =>
        \A s \in 1..Len(student) :
            Cardinality(KycDocs(s)) = 1 => student[s].kyc_status = DocumentedKycStatus(s)

----------------------------------------------------------------------------
(* Heatmap claim *)

\* a heatmap request answered without a live store connection
HeatmapUnavailable(p) == procs[p].op = "heatmap" /\ ~procs[p].live

\* C15: when the store has no live connection, heatmap returns an empty sequence
\* instead of failing, in both variants.
C15_HeatmapUnavailable ==
    \A p \in Procs :
        HeatmapUnavailable(p) => (procs[p].pc = "done" /\ procs[p].points = <<>>)

\* the same for src/backend/main.py alone
C15_HeatmapUnavailableBackend == variant = "backend" => C15_HeatmapUnavailable

====
